---- MODULE Spec2Model ----
(***************************************************************************)
(* policy-scout, cmd/aws.go: the text renderer of an AWS organization.     *)
(* describeAccount resolves the root id and dispatches either to           *)
(* printEntireOrg (target "all") or to printPathToAccount (one account).   *)
(* The AWS Organizations client is modelled by the record aws, fixed for   *)
(* one invocation; every call on it is logged in calls and may fail when   *)
(* aws.faulty holds.                                                       *)
(***************************************************************************)
EXTENDS Integers, Sequences, FiniteSets, TLC

VARIABLES
    aws,              \* what the organizations client answers (one snapshot)
    targetAccountID,  \* the --account-id flag
    pc,               \* position in describeAccount
    rootID,           \* result of getRootID
    stack,            \* activations of printEntireOrg, innermost last
    visited,          \* the visited map, shared by all activations
    queue,            \* printPathToAccount: the BFS queue of node{path, id}
    heap,             \* backing arrays of the path slices
    cur,              \* printPathToAccount: locals of the current iteration
    out,              \* lines written to standard output
    calls,            \* collaborator calls issued so far, in order
    err,              \* the error describeAccount returns
    first             \* output, result and calls of an earlier run of the command

vars == <<aws, targetAccountID, pc, rootID, stack, visited, queue, heap, cur,
          out, calls, err, first>>

-----------------------------------------------------------------------------
(* Bounds of the explored inputs. *)

\* non-root nodes of the organizations explored without faults
MaxNodes == 5
\* non-root nodes of the organizations explored with varied attached policies
MaxPolicyNodes == 2
\* non-root nodes of the organizations explored with failing calls
MaxFaultNodes == 3
\* non-root nodes of the organizations explored with one child listed twice
MaxInconsistentNodes == 3
\* non-root nodes of the organizations on which the command is run a second time
MaxRerunNodes == 2

-----------------------------------------------------------------------------
(* Identifiers. AWS ids are told apart by their shape: "r-..." is a root,  *)
(* "ou-..." an organizational unit, twelve digits an account.              *)

RootIDs == {"r-0", "r-9"}
OUIDs == <<"ou-1", "ou-2", "ou-3", "ou-4", "ou-5", "ou-6", "ou-7", "ou-8">>
AccountIDs == <<"000000000001", "000000000002", "000000000003", "000000000004",
                "000000000005", "000000000006", "000000000007", "000000000008">>
AbsentAccount == "999999999999"

Range(s) == {s[i] : i \in DOMAIN s}

\* strings.HasPrefix(id, "r-")
HasPrefixR(id) == id \in RootIDs
\* strings.HasPrefix(id, "ou-")
HasPrefixOU(id) == id \in Range(OUIDs)
\* strconv.Atoi(id) succeeds and len(id) == 12
IsAccountNumber(id) == id \in Range(AccountIDs) \cup {AbsentAccount} /\ Len(id) = 12

\* strings.ToLower on the values the flag takes here
ToLower(s) == IF s \in {"all", "All", "ALL"} THEN "all" ELSE s

indent == "    "
MgmtSuffix == " (Management Account)"

\* the name DescribeAccount / DescribeOrganizationalUnit reports for id
NameOf(id) == "name:" \o id

-----------------------------------------------------------------------------
(* Organization trees. Nodes 1..n in pre-order, par[i] the parent of i     *)
(* (0 is the root), kind[i] what i is. Every ordered tree shape has        *)
(* exactly one such numbering.                                             *)

RECURSIVE Ancestors(_, _)
Ancestors(par, i) == IF i = 0 THEN {0} ELSE {i} \cup Ancestors(par, par[i])

RECURSIVE Trees(_)
Trees(n) ==
    IF n = 0 THEN {<<>>}
    ELSE UNION {{Append(t, p) : p \in Ancestors(t, n - 1)} : t \in Trees(n - 1)}

\* only an OU has children
KindsOf(par) ==
    {k \in [DOMAIN par -> {"OU", "ACCOUNT"}] :
        \A i \in DOMAIN par : par[i] # 0 => k[par[i]] = "OU"}

NodeID(kind, i) ==
    IF i = 0 THEN "r-0"
    ELSE IF kind[i] = "OU" THEN OUIDs[i] ELSE AccountIDs[i]

AccountsOf(kind) == {AccountIDs[i] : i \in {j \in DOMAIN kind : kind[j] = "ACCOUNT"}}

\* the ids of p's children of one type, in the order the provider lists them
ChildIDs(par, kind, p, childType) ==
    LET Is(i) == par[i] = p /\ kind[i] = childType
        idx == SelectSeq([i \in DOMAIN par |-> i], Is)
    IN  [j \in DOMAIN idx |-> NodeID(kind, idx[j])]

\* the provider's data for the tree (par, kind)
Organization(par, kind, policies, master, roots, faulty) ==
    LET nodes == 0..Len(par)
        inner == {i \in nodes : i = 0 \/ kind[i] = "OU"}
        At(id) == CHOOSE i \in nodes : NodeID(kind, i) = id
    IN  [ roots    |-> roots,
          children |-> [id \in {NodeID(kind, i) : i \in inner} |->
                          [ ACCOUNT |-> ChildIDs(par, kind, At(id), "ACCOUNT"),
                            ORGANIZATIONAL_UNIT |-> ChildIDs(par, kind, At(id), "OU") ]],
          parents  |-> [id \in {NodeID(kind, i) : i \in nodes} |->
                          IF At(id) = 0 THEN <<>>
                          ELSE <<NodeID(kind, par[At(id)])>>],
          policies |-> [id \in {NodeID(kind, i) : i \in nodes} |-> policies[At(id)]],
          master   |-> master,
          faulty   |-> faulty ]

NodeIDs == DOMAIN aws.parents
TreeAccounts == {id \in NodeIDs : IsAccountNumber(id)}
TreeOUs == {id \in NodeIDs : HasPrefixOU(id)}

-----------------------------------------------------------------------------
(* The collaborator calls and the helpers built on them. *)

Call(op, arg, ok) == [op |-> op, arg |-> arg, ok |-> ok, lines |-> Len(out)]

Nil == [msg |-> "nil", cause |-> 0]
Error(msg, cause) == [msg |-> msg, cause |-> cause]

\* the outcomes the provider may give n calls in a row: 0 when all succeed,
\* k when the k-th is the first to fail
Outcomes(n) == IF aws.faulty THEN 0..n ELSE {0}

\* the calls of script that are issued when its k-th call fails (k = 0: none does)
Issued(script, k) ==
    [j \in 1..(IF k = 0 THEN Len(script) ELSE k) |->
        Call(script[j][1], script[j][2], j # k)]

\* getNameByID: the call it issues (none for a root) ...
getNameByIDCalls(entityID) ==
    IF IsAccountNumber(entityID) THEN << <<"DescribeAccount", entityID>> >>
    ELSE IF HasPrefixR(entityID) THEN <<>>
    ELSE << <<"DescribeOrganizationalUnit", entityID>> >>

\* ... and the name it returns
getNameByID(entityID) ==
    IF IsAccountNumber(entityID) THEN NameOf(entityID)
    ELSE IF HasPrefixR(entityID) THEN "Root"
    ELSE NameOf(entityID)

\* listParentOUs: the ids ListParents reports
listParentOUs(entityID) == aws.parents[entityID]

\* listAllSCPsForChild: the policies of childID followed by those of each parent
RECURSIVE listAllSCPsForChild(_)
RECURSIVE SCPsOfParents(_)
listAllSCPsForChild(childID) ==
    aws.policies[childID] \o
    (IF HasPrefixR(childID) THEN <<>> ELSE SCPsOfParents(listParentOUs(childID)))
SCPsOfParents(parentOUs) ==
    IF parentOUs = <<>> THEN <<>>
    ELSE listAllSCPsForChild(Head(parentOUs)) \o SCPsOfParents(Tail(parentOUs))

\* the calls listAllSCPsForChild issues, in order
RECURSIVE listAllSCPsForChildCalls(_)
RECURSIVE CallsOfParents(_)
listAllSCPsForChildCalls(childID) ==
    << <<"ListPoliciesForTarget", childID>> >> \o
    (IF HasPrefixR(childID) THEN <<>>
     ELSE << <<"ListParents", childID>> >> \o CallsOfParents(listParentOUs(childID)))
CallsOfParents(parentOUs) ==
    IF parentOUs = <<>> THEN <<>>
    ELSE listAllSCPsForChildCalls(Head(parentOUs)) \o CallsOfParents(Tail(parentOUs))

\* the caller's loop without the unique map: every name of allSCPs is kept
scpNamesAll(allSCPs, unique) == allSCPs

\* the caller's loop over allSCPs: keep the first occurrence of every name
RECURSIVE scpNames(_, _)
scpNames(allSCPs, unique) ==
    IF allSCPs = <<>> THEN <<>>
    ELSE IF Head(allSCPs) \in unique THEN scpNames(Tail(allSCPs), unique)
    ELSE <<Head(allSCPs)>> \o scpNames(Tail(allSCPs), unique \cup {Head(allSCPs)})

\* isManagementAccount, given whether DescribeOrganization succeeded
isManagementAccount(accountID, ok) == ok /\ aws.master = accountID

\* the Account line of id
AccountLine(prefix, id, mgmt) ==
    [ prefix |-> prefix, kind |-> "Account",
      name |-> IF mgmt THEN getNameByID(id) \o MgmtSuffix ELSE getNameByID(id),
      id |-> id, scps |-> scpNames(listAllSCPsForChild(id), {}) ]

OULine(prefix, id) ==
    [prefix |-> prefix, kind |-> "OU", name |-> getNameByID(id), id |-> id, scps |-> <<>>]

RootLine(prefix, id) ==
    [prefix |-> prefix, kind |-> "Root", name |-> "", id |-> id, scps |-> <<>>]

NotFoundLine(id) ==
    [prefix |-> "", kind |-> "NotFound", name |-> "", id |-> id, scps |-> <<>>]

-----------------------------------------------------------------------------
(* Go slices of the path search: a slice is a window [arr, len] on a       *)
(* backing array of the heap; its capacity is the array's length.          *)

Slice(arr, len) == [arr |-> arr, len |-> len]
Cap(h, s) == Len(h[s.arr])
Elems(h, s) == SubSeq(h[s.arr], 1, s.len)

\* append(s, x): in place when s has spare capacity, else into a new array of
\* twice the capacity. Returns the heap and the resulting slice.
append(h, s, x) ==
    IF s.len < Cap(h, s)
    THEN [ heap  |-> [h EXCEPT ![s.arr][s.len + 1] = x],
           slice |-> Slice(s.arr, s.len + 1) ]
    ELSE LET newcap == IF Cap(h, s) = 0 THEN 1 ELSE 2 * Cap(h, s)
             fresh == [j \in 1..newcap |->
                         IF j <= s.len THEN h[s.arr][j]
                         ELSE IF j = s.len + 1 THEN x ELSE ""]
         IN  [ heap  |-> Append(h, fresh),
               slice |-> Slice(Len(h) + 1, s.len + 1) ]

-----------------------------------------------------------------------------
(* Initial states: one invocation of "policy-scout aws --output-format     *)
(* text --account-id <target>" against one organization.                   *)

PolicyLists == {<<>>, <<"FullAWSAccess">>, <<"DenyAccessS3", "FullAWSAccess">>}
DefaultPolicies(n) == [i \in 0..n |-> <<"FullAWSAccess">>]

Masters(kind) == IF AccountsOf(kind) = {} THEN {AbsentAccount} ELSE AccountsOf(kind)

NoNode == [path |-> Slice(0, 0), id |-> ""]
NoCur == [ at |-> "loop", currentNode |-> NoNode, childAccounts |-> <<>>,
           childOUs |-> <<>>, newPath |-> Slice(0, 0), i |-> 0, prefix |-> "" ]

\* no earlier run
NoRun == [done |-> FALSE, out |-> <<>>, err |-> Nil, calls |-> <<>>]

InitWith(org, target) ==
    /\ aws = org
    /\ first = NoRun
    /\ targetAccountID = target
    /\ pc = "getRootID"
    /\ rootID = ""
    /\ stack = <<>>
    /\ visited = {}
    /\ queue = <<>>
    /\ heap = <<>>
    /\ cur = NoCur
    /\ out = <<>>
    /\ calls = <<>>
    /\ err = Nil

\* every tree shape up to MaxNodes nodes, no failing call
InitShapes ==
    \E n \in 0..MaxNodes : \E par \in Trees(n) : \E kind \in KindsOf(par) :
    \E master \in Masters(kind) :
    \E target \in {"all", AbsentAccount} \cup AccountsOf(kind) :
        InitWith(Organization(par, kind, DefaultPolicies(n), master, <<"r-0">>, FALSE),
                 target)

\* small trees with every attachment of the policy lists
InitPolicies ==
    \E n \in 0..MaxPolicyNodes : \E par \in Trees(n) : \E kind \in KindsOf(par) :
    \E policies \in [0..n -> PolicyLists] :
    \E target \in {"all"} \cup AccountsOf(kind) :
        InitWith(Organization(par, kind, policies, AbsentAccount, <<"r-0">>, FALSE),
                 target)

\* small trees where any call may fail and ListRoots may report 0, 1 or 2 roots
InitFaults ==
    \E n \in 0..MaxFaultNodes : \E par \in Trees(n) : \E kind \in KindsOf(par) :
    \E master \in Masters(kind) :
    \E roots \in {<<>>, <<"r-0">>, <<"r-0", "r-9">>} :
    \E target \in {"All", AbsentAccount} \cup AccountsOf(kind) :
        InitWith(Organization(par, kind, DefaultPolicies(n), master, roots, TRUE),
                 target)

\* org with child listed once more, by ListChildren of parent p, before or after
\* p's other children of that type
WithExtraChild(org, p, child, before) ==
    LET childType == IF HasPrefixOU(child) THEN "ORGANIZATIONAL_UNIT" ELSE "ACCOUNT" IN
    [org EXCEPT !.children[p][childType] =
        IF before THEN <<child>> \o @ ELSE Append(@, child)]

\* inconsistent provider data: small trees where one Account or OU is also
\* listed under a second parent (an OU possibly under itself or a descendant)
InitInconsistent ==
    \E n \in 1..MaxInconsistentNodes : \E par \in Trees(n) : \E kind \in KindsOf(par) :
    \E master \in Masters(kind) :
    \E i \in 1..n : \E j \in {0} \cup {m \in 1..n : kind[m] = "OU"} :
    \E before \in BOOLEAN :
        /\ par[i] # j
        /\ InitWith(WithExtraChild(
                       Organization(par, kind, DefaultPolicies(n), master, <<"r-0">>, FALSE),
                       NodeID(kind, j), NodeID(kind, i), before),
                    "all")

Init == InitShapes \/ InitPolicies \/ InitFaults \/ InitInconsistent

-----------------------------------------------------------------------------
(* describeAccount, getRootID, displayOrganizationTreeText *)

\* the error return of a handler: every activation returns it unchanged or wrapped
Fail(msg, issued) ==
    /\ err' = Error(msg, Len(issued))
    /\ pc' = "done"
    /\ stack' = <<>>

\* getRootID on the roots ListRoots reported
getRootID(roots) ==
    IF Len(roots) = 0
    THEN [id |-> "", err |-> "no roots found in the organization"]
    ELSE [id |-> roots[1], err |-> "nil"]

\* the visited map handed to displayOrganizationTreeText
KeptVisited == visited
FreshVisited == {}

describeAccount ==
    /\ pc = "getRootID"
    /\ \E k \in Outcomes(1) :
         LET issued == calls \o Issued(<< <<"ListRoots", "">> >>, k)
             r == getRootID(aws.roots)
         IN  /\ calls' = issued
             /\ IF k # 0
                THEN Fail("couldn't get organization's root ID", issued)
                     /\ UNCHANGED rootID
                ELSE IF r.err # "nil"
                THEN /\ err' = Error(r.err, 0)
                     /\ pc' = "done"
                     /\ UNCHANGED <<rootID, stack>>
                ELSE /\ rootID' = r.id
                     /\ pc' = "display"
                     /\ UNCHANGED <<err, stack>>
             /\ visited' = IF k = 0 /\ r.err = "nil" THEN FreshVisited ELSE visited
    /\ UNCHANGED <<aws, targetAccountID, first, queue, heap, cur, out>>

Frame(id, prefix) ==
    [ toBeProcessed |-> <<id>>, prefix |-> prefix, parentID |-> "",
      childAccounts |-> <<>>, childOUs |-> <<>>, at |-> "loop" ]

displayOrganizationTreeText ==
    /\ pc = "display"
    /\ IF ToLower(targetAccountID) = "all"
       THEN /\ out' = Append(out, RootLine("", rootID))
            /\ stack' = <<Frame(rootID, "" \o indent)>>
            /\ pc' = "printEntireOrg"
            /\ UNCHANGED <<queue, heap>>
       ELSE /\ heap' = << <<rootID>> >>
            /\ queue' = << [path |-> Slice(1, 1), id |-> rootID] >>
            /\ pc' = "printPathToAccount"
            /\ UNCHANGED <<out, stack>>
    /\ UNCHANGED <<aws, targetAccountID, first, rootID, visited, cur, calls, err>>

-----------------------------------------------------------------------------
(* printEntireOrg *)

listChildren(parentID, childType) == aws.children[parentID][childType]

ListChildrenCalls(parentID) ==
    << <<"ListChildren:ACCOUNT", parentID>>,
       <<"ListChildren:ORGANIZATIONAL_UNIT", parentID>> >>

\* where a loop body continues: the accounts loop, then the OUs loop, then the
\* head of the outer loop
Resume(f) ==
    [f EXCEPT !.at = IF f.childAccounts # <<>> THEN "accounts"
                     ELSE IF f.childOUs # <<>> THEN "ous"
                     ELSE "loop"]

Top == stack[Len(stack)]
SetTop(f) == [stack EXCEPT ![Len(stack)] = f]

\* a visited test that never finds the entry
VisitedNever(v, childID) == FALSE

\* visited[childID]
Visited(v, childID) == childID \in v

\* no recursive call: the child is expanded from toBeProcessed alone
RecurseNot(stk, childID, prefix) == [stk EXCEPT ![Len(stk)] = Resume(@)]

\* a recursive call that passes the prefix on unchanged
RecurseFlat(stk, childID, prefix) == Append(stk, Frame(childID, prefix))

\* the recursive call printEntireOrg(client, childID, prefix+"    ", visited)
Recurse(stk, childID, prefix) == Append(stk, Frame(childID, prefix \o "    "))

\* lines 244-258: take the next parent and list its children
printEntireOrg_Expand ==
    /\ pc = "printEntireOrg"
    /\ Top.at = "loop"
    /\ Top.toBeProcessed # <<>>
    /\ LET parentID == Head(Top.toBeProcessed) IN
       \E k \in Outcomes(2) :
         LET issued == calls \o Issued(ListChildrenCalls(parentID), k) IN
         /\ calls' = issued
         /\ IF k = 1 THEN Fail("error listing accounts", issued)
            ELSE IF k = 2 THEN Fail("error listing organizational units", issued)
            ELSE /\ stack' = SetTop(Resume(
                       [Top EXCEPT !.toBeProcessed = Tail(@),
                                   !.parentID = parentID,
                                   !.childAccounts = listChildren(parentID, "ACCOUNT"),
                                   !.childOUs = listChildren(parentID, "ORGANIZATIONAL_UNIT")]))
                 /\ UNCHANGED <<pc, err>>
    /\ UNCHANGED <<aws, targetAccountID, first, rootID, visited, queue, heap, cur, out>>

\* lines 261-300: one iteration of the accounts loop
printEntireOrg_Account ==
    /\ pc = "printEntireOrg"
    /\ Top.at = "accounts"
    /\ LET childID == Head(Top.childAccounts)
           rest == Resume([Top EXCEPT !.childAccounts = Tail(@)])
           nameCalls == getNameByIDCalls(childID)
           script == nameCalls \o listAllSCPsForChildCalls(childID)
       IN  IF Visited(visited, childID)
           THEN /\ stack' = SetTop(rest)
                /\ UNCHANGED <<pc, err, visited, out, calls>>
           ELSE \E orgOK \in (IF aws.faulty THEN BOOLEAN ELSE {TRUE}) :
                \E k \in Outcomes(Len(script)) :
                  LET issued == Append(calls, Call("DescribeOrganization", "", orgOK))
                                \o Issued(script, k)
                  IN  /\ calls' = issued
                      /\ IF k = 0
                         THEN /\ out' = Append(out, AccountLine(Top.prefix, childID,
                                             isManagementAccount(childID, orgOK)))
                              /\ visited' = visited \cup {childID}
                              /\ stack' = SetTop(rest)
                              /\ UNCHANGED <<pc, err>>
                         ELSE /\ IF k <= Len(nameCalls)
                                 THEN Fail("error getting name for id", issued)
                                 ELSE Fail("error listing SCPs", issued)
                              /\ UNCHANGED <<visited, out>>
    /\ UNCHANGED <<aws, targetAccountID, first, rootID, queue, heap, cur>>

\* lines 303-327: one iteration of the OUs loop, up to the recursive call
printEntireOrg_OU ==
    /\ pc = "printEntireOrg"
    /\ Top.at = "ous"
    /\ LET childID == Head(Top.childOUs) IN
       IF Visited(visited, childID)
       THEN /\ stack' = SetTop(Resume([Top EXCEPT !.childOUs = Tail(@)]))
            /\ UNCHANGED <<pc, err, visited, out, calls>>
       ELSE \E k \in Outcomes(1) :
              LET issued == calls \o Issued(getNameByIDCalls(childID), k) IN
              /\ calls' = issued
              /\ IF k # 0
                 THEN /\ Fail("error getting name for id", issued)
                      /\ UNCHANGED <<visited, out>>
                 ELSE /\ out' = Append(out, OULine(Top.prefix, childID))
                      /\ visited' = visited \cup {childID}
                      /\ stack' = Recurse(
                             SetTop([Top EXCEPT !.childOUs = Tail(@),
                                                !.toBeProcessed = Append(@, childID)]),
                             childID, Top.prefix)
                      /\ UNCHANGED <<pc, err>>
    /\ UNCHANGED <<aws, targetAccountID, first, rootID, queue, heap, cur>>

\* line 329: the queue is empty, the activation returns nil to its caller, which
\* goes on with its OUs loop
printEntireOrg_Return ==
    /\ pc = "printEntireOrg"
    /\ Top.at = "loop"
    /\ Top.toBeProcessed = <<>>
    /\ IF Len(stack) = 1
       THEN /\ stack' = <<>>
            /\ pc' = "done"
            /\ err' = Nil
       ELSE /\ stack' = [SubSeq(stack, 1, Len(stack) - 1)
                           EXCEPT ![Len(stack) - 1] = Resume(@)]
            /\ UNCHANGED <<pc, err>>
    /\ UNCHANGED <<aws, targetAccountID, first, rootID, visited, queue, heap, cur, out, calls>>

-----------------------------------------------------------------------------
(* printPathToAccount *)

\* a match test that accepts every child account
MatchesAny(childID, target) == TRUE

\* childID == targetAccountID
Matches(childID, target) == childID = target

\* what printPathToAccount returns after the not-found message (line 237)
NotFoundResult == Nil
\* what it returns after printing the path (line 222)
FoundResult == Nil

\* lines 157-172: take the next node from the queue and list its children
printPathToAccount_Dequeue ==
    /\ pc = "printPathToAccount"
    /\ cur.at = "loop"
    /\ queue # <<>>
    /\ LET currentNode == Head(queue) IN
       \E k \in Outcomes(2) :
         LET issued == calls \o Issued(ListChildrenCalls(currentNode.id), k) IN
         /\ calls' = issued
         /\ queue' = Tail(queue)
         /\ IF k = 1 THEN Fail("error listing accounts", issued) /\ UNCHANGED cur
            ELSE IF k = 2
            THEN Fail("error listing organizational units", issued) /\ UNCHANGED cur
            ELSE /\ cur' = Resume(
                       [cur EXCEPT !.currentNode = currentNode,
                                   !.childAccounts = listChildren(currentNode.id, "ACCOUNT"),
                                   !.childOUs = listChildren(currentNode.id,
                                                             "ORGANIZATIONAL_UNIT")])
                 /\ UNCHANGED <<pc, err, stack>>
    /\ UNCHANGED <<aws, targetAccountID, first, rootID, visited, heap, out>>

\* lines 175-181: one iteration of the accounts loop, up to the match test
printPathToAccount_Account ==
    /\ pc = "printPathToAccount"
    /\ cur.at = "accounts"
    /\ LET childID == Head(cur.childAccounts)
           a == append(heap, cur.currentNode.path, childID)
       IN  /\ heap' = a.heap
           /\ cur' = IF Matches(childID, targetAccountID)
                     THEN [cur EXCEPT !.newPath = a.slice, !.i = 1, !.prefix = "",
                                      !.at = "print"]
                     ELSE Resume([cur EXCEPT !.childAccounts = Tail(@)])
    /\ UNCHANGED <<aws, targetAccountID, first, pc, rootID, stack, visited, queue, out,
                   calls, err>>

\* lines 183-222: one iteration of the loop over newPath; after the last one
\* the function returns nil
printPathToAccount_Print ==
    /\ pc = "printPathToAccount"
    /\ cur.at = "print"
    /\ LET id == heap[cur.newPath.arr][cur.i]
           isAccount == ~HasPrefixR(id) /\ ~HasPrefixOU(id)
           nameCalls == getNameByIDCalls(id)
           scpCalls == IF isAccount THEN listAllSCPsForChildCalls(id) ELSE <<>>
       IN  \E k1 \in Outcomes(Len(nameCalls)) :
           \E orgOK \in (IF aws.faulty /\ isAccount THEN BOOLEAN ELSE {TRUE}) :
           \E k2 \in Outcomes(Len(scpCalls)) :
             LET named == calls \o Issued(nameCalls, k1)
                 issued == IF k1 # 0 THEN named
                           ELSE IF ~isAccount THEN named
                           ELSE Append(named, Call("DescribeOrganization", "", orgOK))
                                \o Issued(scpCalls, k2)
             IN  /\ calls' = issued
                 /\ IF k1 # 0
                    THEN /\ Fail("error getting name for id", issued)
                         /\ UNCHANGED <<out, cur>>
                    ELSE IF k2 # 0
                    THEN /\ Fail("error listing SCPs", issued)
                         /\ UNCHANGED <<out, cur>>
                    ELSE /\ out' = Append(out,
                               IF HasPrefixR(id) THEN RootLine("", id)
                               ELSE IF HasPrefixOU(id) THEN OULine(cur.prefix, id)
                               ELSE AccountLine(cur.prefix, id,
                                                isManagementAccount(id, orgOK)))
                         /\ cur' = [cur EXCEPT !.prefix = @ \o "    ", !.i = @ + 1]
                         /\ IF cur.i = cur.newPath.len
                            THEN pc' = "done" /\ err' = FoundResult
                            ELSE UNCHANGED <<pc, err>>
                         /\ UNCHANGED stack
    /\ UNCHANGED <<aws, targetAccountID, first, rootID, visited, queue, heap>>

\* lines 226-232: one iteration of the OUs loop
printPathToAccount_OU ==
    /\ pc = "printPathToAccount"
    /\ cur.at = "ous"
    /\ LET childID == Head(cur.childOUs)
           a == append(heap, cur.currentNode.path, childID)
       IN  /\ heap' = a.heap
           /\ queue' = Append(queue, [path |-> a.slice, id |-> childID])
           /\ cur' = Resume([cur EXCEPT !.childOUs = Tail(@)])
    /\ UNCHANGED <<aws, targetAccountID, first, pc, rootID, stack, visited, out, calls, err>>

\* lines 235-237: the queue is empty
printPathToAccount_NotFound ==
    /\ pc = "printPathToAccount"
    /\ cur.at = "loop"
    /\ queue = <<>>
    /\ out' = Append(out, NotFoundLine(targetAccountID))
    /\ err' = NotFoundResult
    /\ pc' = "done"
    /\ UNCHANGED <<aws, targetAccountID, first, rootID, stack, visited, queue, heap, cur, calls>>

-----------------------------------------------------------------------------

\* the command is run once more on the same snapshot: what the earlier run
\* wrote and returned is kept for comparison, and the program starts over
runAgain ==
    /\ pc = "done"
    /\ ~first.done
    /\ Cardinality(NodeIDs) <= MaxRerunNodes + 1
    /\ first' = [done |-> TRUE, out |-> out, err |-> err, calls |-> calls]
    /\ pc' = "getRootID"
    /\ rootID' = ""
    /\ stack' = <<>>
    /\ queue' = <<>>
    /\ heap' = <<>>
    /\ cur' = NoCur
    /\ out' = <<>>
    /\ calls' = <<>>
    /\ err' = Nil
    /\ UNCHANGED <<aws, targetAccountID, visited>>

Next ==
    \/ runAgain
    \/ describeAccount
    \/ displayOrganizationTreeText
    \/ printEntireOrg_Expand
    \/ printEntireOrg_Account
    \/ printEntireOrg_OU
    \/ printEntireOrg_Return
    \/ printPathToAccount_Dequeue
    \/ printPathToAccount_Account
    \/ printPathToAccount_Print
    \/ printPathToAccount_OU
    \/ printPathToAccount_NotFound

Spec == Init /\ [][Next]_vars

-----------------------------------------------------------------------------
(* Vocabulary of the properties: the tree as the provider describes it.    *)

FullMode == ToLower(targetAccountID) = "all"

\* the provider's data is a tree: every listed child has the lister as its parent
Consistent ==
    \A p \in DOMAIN aws.children :
    \A childType \in {"ACCOUNT", "ORGANIZATIONAL_UNIT"} :
    \A c \in Range(aws.children[p][childType]) : aws.parents[c] = <<p>>
PathMode == ~FullMode
Done == pc = "done"

\* id, its parent, ..., the root
RECURSIVE Chain(_)
Chain(id) == IF aws.parents[id] = <<>> THEN <<id>>
             ELSE <<id>> \o Chain(aws.parents[id][1])

Reverse(s) == [i \in DOMAIN s |-> s[Len(s) + 1 - i]]
AncestorChain(id) == Reverse(Chain(id))
Depth(id) == Len(Chain(id)) - 1
ParentOf(id) == aws.parents[id][1]
\* d is below a
Below(d, a) == d # a /\ a \in Range(Chain(d))

RECURSIVE Indent(_)
Indent(d) == IF d = 0 THEN "" ELSE indent \o Indent(d - 1)

IsTreeLine(l) == l.kind # "NotFound"
TreeLines == SelectSeq(out, IsTreeLine)
IDs(lines) == [i \in DOMAIN lines |-> lines[i].id]
Emitted(id) == {i \in DOMAIN out : IsTreeLine(out[i]) /\ out[i].id = id}
KindOf(id) == IF HasPrefixR(id) THEN "Root" ELSE IF HasPrefixOU(id) THEN "OU" ELSE "Account"
HasMarker(l) == \E id \in NodeIDs : l.name = NameOf(id) \o MgmtSuffix
Failed == {i \in DOMAIN calls : ~calls[i].ok}

-----------------------------------------------------------------------------
(* The claims. *)

\* C1: when printPathToAccount has returned nil for an account of the tree, the
\* lines it printed are exactly the target's ancestor chain: the Root first, the
\* target last, every entry the parent of the next.
C1_PathIsAncestorChain ==
    (Done /\ PathMode /\ err = Nil /\ targetAccountID \in TreeAccounts)
        => /\ out = TreeLines
           /\ IDs(out) = AncestorChain(targetAccountID)

\* C2: when the full-tree walk has finished without error, the Root, every OU
\* and every Account of the tree has exactly one line, of its own kind, and
\* there is no other line; while it runs no node has two lines.
C2_WalkCoversEveryNodeOnce ==
    FullMode =>
        /\ \A id \in NodeIDs : Cardinality(Emitted(id)) <= 1
        /\ (Done /\ err = Nil) =>
              /\ \A id \in NodeIDs :
                    /\ Cardinality(Emitted(id)) = 1
                    /\ \A i \in Emitted(id) : out[i].kind = KindOf(id)
              /\ Len(out) = Cardinality(NodeIDs)

C2_Witness ==
    /\ Done /\ FullMode /\ err = Nil
    /\ Cardinality(TreeOUs) >= 3
    /\ \E a, b \in TreeAccounts : a # b /\ Depth(a) >= 3 /\ Depth(b) = 1

\* C3: the policy names on an Account line are exactly the names attached to the
\* account or to one of its ancestors up to the Root, each once, ordered by the
\* nearest node of the chain that carries them (and, for one node, as listed).
C3_InheritedPolicies ==
    \A n \in DOMAIN out : out[n].kind = "Account" =>
        LET names == out[n].scps
            chain == Chain(out[n].id)
            Carrier(x) == CHOOSE k \in DOMAIN chain :
                             /\ x \in Range(aws.policies[chain[k]])
                             /\ \A j \in 1..(k - 1) : x \notin Range(aws.policies[chain[j]])
            Place(x) == CHOOSE j \in DOMAIN aws.policies[chain[Carrier(x)]] :
                             aws.policies[chain[Carrier(x)]][j] = x
        IN  /\ Range(names) = UNION {Range(aws.policies[chain[k]]) : k \in DOMAIN chain}
            /\ \A i, j \in DOMAIN names : i # j => names[i] # names[j]
            /\ \A i, j \in DOMAIN names : i < j =>
                  \/ Carrier(names[i]) < Carrier(names[j])
                  \/ /\ Carrier(names[i]) = Carrier(names[j])
                     /\ Place(names[i]) < Place(names[j])

C3_Witness ==
    \E n \in DOMAIN out :
        /\ out[n].kind = "Account"
        /\ Depth(out[n].id) >= 2
        /\ Len(out[n].scps) = 2
        /\ Len(listAllSCPsForChild(out[n].id)) >= 4
        /\ aws.policies[out[n].id] = <<>>

C5_IndentIsDepth ==
    \A n \in DOMAIN out : (Consistent /\ IsTreeLine(out[n])) =>
        out[n].prefix = Indent(Depth(out[n].id))

C5_Witness ==
    /\ Done /\ err = Nil
    /\ \E n \in DOMAIN out :
          /\ out[n].kind = "Account"
          /\ Depth(out[n].id) >= 4
          /\ Len(out[n].prefix) = 16

\* C6: a failed collaborator call is the last call issued, nothing is printed
\* after it, and the operation has returned the error of that call.
C6_FirstFailureHalts ==
    \A i \in Failed :
        /\ i = Len(calls)
        /\ Len(out) = calls[i].lines
        /\ Done /\ err # Nil /\ err.cause = i

\* C7: when the full-tree render of an organization whose master account is one
\* of its accounts has finished, exactly one line carries the marker
\* "(Management Account)", and it is the Account line of the master account.
C7_SingleManagementFlag ==
    (Done /\ FullMode /\ err = Nil /\ aws.master \in TreeAccounts) =>
        LET marked == {i \in DOMAIN out : HasMarker(out[i])} IN
        /\ Cardinality(marked) = 1
        /\ \A i \in marked : out[i].kind = "Account" /\ out[i].id = aws.master

C9_NotFoundDistinct ==
    (Done /\ PathMode /\ out = <<NotFoundLine(targetAccountID)>>)
        => err # FoundResult

\* C10: with more than one root, or with none, getRootID fails and nothing starts;
\* whatever starts, starts from the only root.
C10_SingleRoot ==
    LET started == \/ pc \in {"display", "printEntireOrg", "printPathToAccount"}
                   \/ out # <<>>
                   \/ Len(calls) > 1
    IN  /\ Len(aws.roots) # 1 => ~started
        /\ (Len(aws.roots) # 1 /\ Done) => err # Nil
        /\ started => rootID = aws.roots[1]

\* the calls of one operation on one id issued so far
CallsOf(op, arg) == {i \in DOMAIN calls : calls[i].op = op /\ calls[i].arg = arg}

\* C12: during one invocation DescribeOrganization is called at most once.
C12_DescribeOrganizationOnce ==
    Cardinality(CallsOf("DescribeOrganization", "")) <= 1

\* C13: during one full-tree walk ListPoliciesForTarget and ListParents are each
\* called at most once for every node id.
C13_AncestorLookupsOnce ==
    FullMode =>
        \A id \in NodeIDs :
            /\ Cardinality(CallsOf("ListPoliciesForTarget", id)) <= 1
            /\ Cardinality(CallsOf("ListParents", id)) <= 1

\* C14: during one full-tree walk the Root and every OU is expanded (its
\* children listed) at most once, all activations of printEntireOrg together.
C14_ExpandedOnce ==
    FullMode =>
        \A id \in DOMAIN aws.children :
            /\ Cardinality(CallsOf("ListChildren:ACCOUNT", id)) <= 1
            /\ Cardinality(CallsOf("ListChildren:ORGANIZATIONAL_UNIT", id)) <= 1

\* C16: in the path search every queue entry holds the root-to-id chain of its
\* own id, whatever paths were built after it was enqueued.
C16_QueuePaths ==
    PathMode =>
        \A k \in DOMAIN queue :
            Elems(heap, queue[k].path) = AncestorChain(queue[k].id)

\* the line under which line n is rendered: the last earlier line indented less
RenderedUnder(n) ==
    LET above == {m \in 1..(n - 1) : Len(out[m].prefix) < Len(out[n].prefix)}
    IN  CHOOSE m \in above : \A k \in above : k <= m

ListedUnder(p) ==
    IF p \in DOMAIN aws.children
    THEN Range(aws.children[p]["ACCOUNT"]) \cup Range(aws.children[p]["ORGANIZATIONAL_UNIT"])
    ELSE {}

\* the ids that ListChildren reports for two parents, or twice
ListedTwice ==
    {c \in NodeIDs : \E p \in DOMAIN aws.children : c \in ListedUnder(p) /\ aws.parents[c] # <<p>>}

\* C15: in a full-tree walk, also when ListChildren reports a child under two
\* parents, no id has two lines; every line but the first is rendered one indent
\* below the line of a parent that lists its id; the visited set holds exactly
\* the ids printed below the Root; and no step prints a line for, or calls
\* printEntireOrg on, an id that is already in the visited set.
C15_VisitedGuards ==
    /\ [](FullMode =>
            /\ \A id \in NodeIDs : Cardinality(Emitted(id)) <= 1
            /\ \A n \in 2..Len(out) :
                  /\ out[n].id \in ListedUnder(out[RenderedUnder(n)].id)
                  /\ out[n].prefix = out[RenderedUnder(n)].prefix \o indent
            /\ pc = "printEntireOrg" => visited = {out[n].id : n \in 2..Len(out)})
    /\ [][(FullMode /\ pc = "printEntireOrg") =>
            \A id \in visited :
                /\ Emitted(id)' = Emitted(id)
                /\ Len(stack') > Len(stack) => Head(stack'[Len(stack')].toBeProcessed) # id]_vars

C15_Witness ==
    /\ Done /\ FullMode /\ err = Nil
    /\ \E c \in ListedTwice :
          /\ HasPrefixOU(c)
          /\ ListedUnder(c) # {}
          /\ Cardinality(Emitted(c)) = 1
          /\ \E n \in Emitted(c) : out[RenderedUnder(n)].id # ParentOf(c)

\* the most children ListChildren reports for one parent
MostChildren ==
    LET Count(p) == Len(aws.children[p]["ACCOUNT"]) + Len(aws.children[p]["ORGANIZATIONAL_UNIT"])
    IN  CHOOSE k \in {Count(p) : p \in DOMAIN aws.children} :
            \A p \in DOMAIN aws.children : Count(p) <= k

RECURSIVE Sum(_)
Sum(lens) == IF lens = <<>> THEN 0 ELSE Head(lens) + Sum(Tail(lens))

\* what is left of the walk: ids not yet visited, parents still queued, children
\* still to loop over, activations still to return
Remaining ==
    LET Queued(stk) == [k \in DOMAIN stk |-> Len(stk[k].toBeProcessed)]
        Pending(stk) == [k \in DOMAIN stk |-> Len(stk[k].childAccounts) + Len(stk[k].childOUs)]
        perParent == MostChildren + 1
        perID == 2 * perParent + 1
        Walk(v, stk) == 1 + perID * Cardinality(NodeIDs \ v) + perParent * Sum(Queued(stk))
                          + Sum(Pending(stk)) + Len(stk)
        start == Walk({}, <<Frame("r-0", "")>>)
    IN  CASE pc = "done" -> 0
          [] pc = "printEntireOrg" -> Walk(visited, stack)
          [] pc = "display" -> start + 1
          [] OTHER -> start + 2

Answers(log) == [i \in DOMAIN log |-> log[i].ok]

====
